---- MODULE Spec2Model ----
(***************************************************************************)
(* Model of pkg/config/config.go: DefaultConfig and LoadConfig.            *)
(*                                                                         *)
(* Strings whose characters matter (pagination keys) are sequences of      *)
(* one-character strings, so that base64 / hex decoding is computed.       *)
(* Pointers are indices into typed heaps; 0 is the nil pointer.            *)
(* Durations are in seconds.                                               *)
(***************************************************************************)
EXTENDS Integers, Sequences, FiniteSets, TLC

\* ------------------------------------------------------------------ bounds
\* Number of DefaultConfig / LoadConfig calls one behaviour makes.
MaxCalls == 2

\* --------------------------------------------------------------- utilities
Rep(c, n) == [i \in 1..n |-> c]

\* ------------------------------------------- encoding/base64, encoding/hex
Upper == <<"A","B","C","D","E","F","G","H","I","J","K","L","M",
           "N","O","P","Q","R","S","T","U","V","W","X","Y","Z">>
Lower == <<"a","b","c","d","e","f","g","h","i","j","k","l","m",
           "n","o","p","q","r","s","t","u","v","w","x","y","z">>
Digits == <<"0","1","2","3","4","5","6","7","8","9">>

\* base64.StdEncoding and base64.URLEncoding alphabets (both padded with "=").
StdAlphabet == Upper \o Lower \o Digits \o <<"+", "/">>
URLAlphabet == Upper \o Lower \o Digits \o <<"-", "_">>

\* The decoding table of an alphabet: character |-> value.
DecodeMap(alpha) ==
    [c \in {alpha[i] : i \in 1..Len(alpha)} |->
        (CHOOSE i \in 1..Len(alpha) : alpha[i] = c) - 1]
StdDecodeMap == DecodeMap(StdAlphabet)
URLDecodeMap == DecodeMap(URLAlphabet)

\* Value of character c under a decoding table, or -1.
IndexOf(table, c) == IF c \in DOMAIN table THEN table[c] ELSE -1

\* base64 Encoding.EncodeToString
RECURSIVE EncodeToString(_, _)
EncodeToString(alpha, b) ==
    IF Len(b) = 0 THEN <<>>
    ELSE IF Len(b) >= 3 THEN
        LET v == b[1] * 65536 + b[2] * 256 + b[3]
        IN  << alpha[(v \div 262144) + 1], alpha[((v \div 4096) % 64) + 1],
               alpha[((v \div 64) % 64) + 1], alpha[(v % 64) + 1] >>
            \o EncodeToString(alpha, SubSeq(b, 4, Len(b)))
    ELSE IF Len(b) = 2 THEN
        LET v == b[1] * 65536 + b[2] * 256
        IN  << alpha[(v \div 262144) + 1], alpha[((v \div 4096) % 64) + 1],
               alpha[((v \div 64) % 64) + 1], "=" >>
    ELSE
        LET v == b[1] * 65536
        IN  << alpha[(v \div 262144) + 1], alpha[((v \div 4096) % 64) + 1],
               "=", "=" >>

\* base64 Encoding.DecodeString: [ok, bytes].  The input is a whole number
\* of 4-character quanta; padding is mandatory and may only close the last
\* quantum (one or two "=").
DecodeString(table, s) ==
    LET n == Len(s)
        pad == IF n >= 2 /\ s[n] = "=" /\ s[n - 1] = "=" THEN 2
               ELSE IF n >= 1 /\ s[n] = "=" THEN 1 ELSE 0
        val(i) == IF i > n - pad THEN 0 ELSE table[s[i]]
        quantum(q) == val(4 * q - 3) * 262144 + val(4 * q - 2) * 4096
                      + val(4 * q - 1) * 64 + val(4 * q)
        byte(k) == LET v == quantum(((k - 1) \div 3) + 1)
                       r == (k - 1) % 3
                   IN  IF r = 0 THEN v \div 65536
                       ELSE IF r = 1 THEN (v \div 256) % 256
                       ELSE v % 256
    IN  IF n % 4 # 0 \/ \E i \in 1..(n - pad) : IndexOf(table, s[i]) < 0
        THEN [ok |-> FALSE, bytes |-> <<>>]
        ELSE [ok |-> TRUE, bytes |-> [k \in 1..((n \div 4) * 3 - pad) |-> byte(k)]]

HexDecodeMap ==
    [c \in {"A", "B", "C", "D", "E", "F"} |->
        10 + DecodeMap(<<"A", "B", "C", "D", "E", "F">>)[c]]
    @@ DecodeMap(Digits \o <<"a", "b", "c", "d", "e", "f">>)

HexVal(c) == IndexOf(HexDecodeMap, c)

\* hex.DecodeString: [ok, bytes]
HexDecodeString(s) ==
    IF Len(s) % 2 # 0 \/ \E i \in 1..Len(s) : HexVal(s[i]) < 0
    THEN [ok |-> FALSE, bytes |-> <<>>]
    ELSE [ok |-> TRUE,
          bytes |-> [i \in 1..(Len(s) \div 2) |->
                        HexVal(s[2 * i - 1]) * 16 + HexVal(s[2 * i])]]

\* ------------------------------------------------------------ fernet keys
\* len(fernet.Key{})
KeyLen == 32

\* Variant: the key is encoded with the standard alphabet.
EncodeStd(key) == EncodeToString(StdAlphabet, key)

\* fernet.Key.Encode: URL-safe base64 of the key bytes.
Encode(key) == EncodeToString(URLAlphabet, key)

\* fernet.DecodeKey: hexadecimal when the length is that of a hex key,
\* otherwise standard base64, falling back to URL-safe base64; the decoded
\* value must have exactly KeyLen bytes.
DecodeKey(s) ==
    LET r == IF Len(s) = 2 * KeyLen THEN HexDecodeString(s)
             ELSE LET std == DecodeString(StdDecodeMap, s)
                  IN  IF std.ok THEN std ELSE DecodeString(URLDecodeMap, s)
    IN  [ok |-> r.ok /\ Len(r.bytes) = KeyLen, bytes |-> r.bytes]

\* A string that is URL-safe base64 of exactly KeyLen bytes.
IsURLSafeKey(s) ==
    LET r == DecodeString(URLDecodeMap, s)
    IN  r.ok /\ Len(r.bytes) = KeyLen

\* ---------------------------------------------------------------- errors
ErrNil == "nil"
ErrOpen == "open: no such file or directory"
ErrRead == "read: input/output error"
ErrYAML == "yaml: cannot unmarshal document"
ErrKeyGen == "rand: key generation failed"
ErrInvalidKey == "invalid Pagination key; must be 32-bit URL-safe base64"
ErrDatasourceNotLoaded ==
    "could not load configuration: no database source specified"

\* ------------------------------------------------------------------- heap
\* heap.cfgs, heap.updaters, heap.notifiers, heap.apis: the allocated
\* Config, UpdaterConfig, notification.Config and APIConfig objects.
EmptyHeap ==
    [cfgs |-> <<>>, updaters |-> <<>>, notifiers |-> <<>>, apis |-> <<>>]

NoOptions == {}

ZeroDatabase == [Type |-> "", Options |-> NoOptions]
ZeroUpdater == [Cron |-> "", Disabled |-> FALSE]
ZeroNotifier == [Attempts |-> 0, RenotifyInterval |-> 0]
ZeroAPI == [Port |-> 0, HealthPort |-> 0, Timeout |-> 0,
            PaginationKey |-> <<>>,
            CertFile |-> "", KeyFile |-> "", CAFile |-> ""]
ZeroConfig == [Database |-> ZeroDatabase, Updater |-> 0, Notifier |-> 0,
               API |-> 0]

\* Variant: the sub-configurations are allocated once and every later call
\* returns pointers to those same objects.
DefaultConfigShared(h) ==
    IF Len(h.apis) > 0
    THEN [cfg |-> [Database |-> [Type |-> "pgsql", Options |-> NoOptions],
                   Updater |-> 1, Notifier |-> 1, API |-> 1],
          heap |-> h]
    ELSE [cfg |-> [Database |-> [Type |-> "pgsql", Options |-> NoOptions],
                   Updater |-> 1, Notifier |-> 1, API |-> 1],
          heap |-> [h EXCEPT
             !.updaters = <<[Cron |-> "@midnight", Disabled |-> FALSE]>>,
             !.apis = <<[ZeroAPI EXCEPT !.Port = 6060, !.HealthPort = 6061,
                                        !.Timeout = 900]>>,
             !.notifiers = <<[Attempts |-> 5,
                              RenotifyInterval |-> 2 * 3600]>>]]

\* DefaultConfig(): a Config value pointing at three newly allocated
\* sub-configurations.  Returns the value and the heap after allocation.
DefaultConfig(h) ==
    [cfg |-> [Database |-> [Type |-> "pgsql", Options |-> NoOptions],
              Updater |-> Len(h.updaters) + 1,
              Notifier |-> Len(h.notifiers) + 1,
              API |-> Len(h.apis) + 1],
     heap |-> [h EXCEPT
        !.updaters = Append(@, [Cron |-> "@midnight", Disabled |-> FALSE]),
        !.apis = Append(@, [ZeroAPI EXCEPT !.Port = 6060,
                                           !.HealthPort = 6061,
                                           !.Timeout = 900]),
        !.notifiers = Append(@, [Attempts |-> 5,
                                 RenotifyInterval |-> 2 * 3600])]]

\* The value of a Config with its pointers followed.
NilValue == [nil |-> TRUE]
DeepValue(h, cfg) ==
    [Database |-> cfg.Database,
     Updater |-> IF cfg.Updater = 0 THEN NilValue ELSE h.updaters[cfg.Updater],
     Notifier |-> IF cfg.Notifier = 0 THEN NilValue
                  ELSE h.notifiers[cfg.Notifier],
     API |-> IF cfg.API = 0 THEN NilValue ELSE h.apis[cfg.API]]
Deep(h, p) == DeepValue(h, h.cfgs[p])

\* What DefaultConfig() evaluates to, pointers followed.
DefaultValue ==
    DeepValue(DefaultConfig(EmptyHeap).heap, DefaultConfig(EmptyHeap).cfg)

\* ----------------------------------------------------------- yaml documents
\* A document is [malformed |-> TRUE] (syntax error or wrong shape),
\* [other |-> TRUE] (well formed, no "clair" key) or [clair |-> c], where c
\* is Null or a record of blocks keyed "database", "updater", "notifier",
\* "api"; a block is Null or a record of the fields it specifies.
Null == [null |-> TRUE]
IsNull(v) == "null" \in DOMAIN v

\* yaml.v2 maps a struct field to the lower-cased field name.
YamlKey ==
    [Type |-> "type", Options |-> "options",
     Cron |-> "cron", Disabled |-> "disabled",
     Attempts |-> "attempts", RenotifyInterval |-> "renotifyinterval",
     Port |-> "port", HealthPort |-> "healthport", Timeout |-> "timeout",
     PaginationKey |-> "paginationkey", CertFile |-> "certfile",
     KeyFile |-> "keyfile", CAFile |-> "cafile"]

\* Variant: the mapping is decoded into a zeroed struct, so a field whose
\* key is absent loses its previous value.
ZeroField ==
    [Type |-> "", Options |-> NoOptions, Cron |-> "", Disabled |-> FALSE,
     Attempts |-> 0, RenotifyInterval |-> 0, Port |-> 0, HealthPort |-> 0,
     Timeout |-> 0, PaginationKey |-> <<>>, CertFile |-> "", KeyFile |-> "",
     CAFile |-> ""]
OverlayOntoZero(old, blk) ==
    [fld \in DOMAIN old |->
        IF YamlKey[fld] \in DOMAIN blk THEN blk[YamlKey[fld]]
        ELSE ZeroField[fld]]

\* Decoding a mapping into an existing struct: a field whose key is present
\* is replaced, every other field is left as it was.
Overlay(old, blk) ==
    [fld \in DOMAIN old |->
        IF YamlKey[fld] \in DOMAIN blk THEN blk[YamlKey[fld]] ELSE old[fld]]

\* Decoding a block into a pointer field: null sets the pointer to nil; a
\* mapping decodes into the pointed-to struct, allocating a zero struct first
\* when the pointer is nil.  Returns the pointer and the cells.
DecodePtr(blocks, key, ptr, cells, zero) ==
    IF key \notin DOMAIN blocks THEN [ptr |-> ptr, cells |-> cells]
    ELSE IF IsNull(blocks[key]) THEN [ptr |-> 0, cells |-> cells]
    ELSE IF ptr = 0
         THEN [ptr |-> Len(cells) + 1,
               cells |-> Append(cells, Overlay(zero, blocks[key]))]
         ELSE [ptr |-> ptr,
               cells |-> [cells EXCEPT ![ptr] = Overlay(@, blocks[key])]]

\* yaml.Unmarshal(d, &cfgFile) for the File whose Clair is heap.cfgs[c].
Unmarshal(d, c, h) ==
    IF "malformed" \in DOMAIN d THEN [err |-> ErrYAML, heap |-> h]
    ELSE IF "clair" \notin DOMAIN d THEN [err |-> ErrNil, heap |-> h]
    ELSE IF IsNull(d.clair)
         THEN [err |-> ErrNil, heap |-> [h EXCEPT !.cfgs[c] = ZeroConfig]]
    ELSE
        LET old == h.cfgs[c]
            b == d.clair
            db == IF "database" \notin DOMAIN b THEN old.Database
                  ELSE IF IsNull(b.database) THEN ZeroDatabase
                  ELSE Overlay(old.Database, b.database)
            u == DecodePtr(b, "updater", old.Updater, h.updaters, ZeroUpdater)
            n == DecodePtr(b, "notifier", old.Notifier, h.notifiers,
                           ZeroNotifier)
            a == DecodePtr(b, "api", old.API, h.apis, ZeroAPI)
        IN  [err |-> ErrNil,
             heap |-> [cfgs |-> [h.cfgs EXCEPT ![c] =
                                    [Database |-> db, Updater |-> u.ptr,
                                     Notifier |-> n.ptr, API |-> a.ptr]],
                       updaters |-> u.cells, notifiers |-> n.cells,
                       apis |-> a.cells]]

\* ------------------------------------------------------------ environment
\* A path is a sequence of segments; a segment in EnvRefs is a reference to
\* an environment variable.  <<>> is the empty path "".
EnvRefs == {"$CLAIR_CONF", "$UNSET"}
Getenv(ref) == IF ref = "$CLAIR_CONF" THEN "/opt/clair" ELSE ""

\* os.ExpandEnv: every reference is replaced by the variable's value, the
\* empty string when the variable is unset.
ExpandEnv(p) ==
    SelectSeq([i \in 1..Len(p) |->
                  IF p[i] \in EnvRefs THEN Getenv(p[i]) ELSE p[i]],
              LAMBDA seg : seg # "")

Paths ==
    { <<>>, <<"/etc/clair/config.yaml">>, <<"$CLAIR_CONF", "/config.yaml">>,
      <<"$UNSET">> }

\* Pagination keys a document may supply.
KeyAllA == Rep("A", 43) \o <<"=">>
KeyURL == EncodeToString(URLAlphabet, Rep(251, 32))
KeyStd == EncodeToString(StdAlphabet, Rep(251, 32))
KeyHex == Rep("0", 62) \o <<"f", "F">>
KeyShort == <<"A", "A", "A", "A">>
KeyNotBase64 ==
    <<"n","o","t","-","v","a","l","i","d","-","b","a","s","e","6","4","!","!">>
SuppliedKeys == {<<>>, KeyStd, KeyHex, KeyShort, KeyNotBase64}

PortOnlyDoc == [clair |-> [api |-> [port |-> 8080]]]
SourceOption == {<<"source", "host=db">>}

Documents ==
    { [malformed |-> TRUE], [other |-> TRUE], [clair |-> Null], PortOnlyDoc,
      [clair |-> [api |-> Null]],
      [clair |-> [updater |-> Null, database |-> Null]],
      [clair |-> [notifier |-> Null, api |-> [paginationkey |-> KeyURL]]],
      [clair |-> [updater |-> [disabled |-> TRUE],
                  api |-> [port |-> 8080, paginationkey |-> KeyAllA,
                           certfile |-> "/tls/cert.pem"]]],
      [clair |-> [database |-> [type |-> "pgsql", options |-> SourceOption],
                  notifier |-> [attempts |-> 3]]] }
    \cup { [clair |-> [api |-> [paginationkey |-> k]]] : k \in SuppliedKeys }

\* What os.Open / ioutil.ReadAll find at the expanded path.
Missing == [missing |-> TRUE]
Unreadable == [unreadable |-> TRUE]
FileStates == {Missing, Unreadable} \cup Documents

\* The states the file named by an expanded path may be in.
FilesAt(name) ==
    IF name = <<"/etc/clair/config.yaml">> THEN FileStates
    ELSE IF name = <<"/opt/clair", "/config.yaml">>
         THEN {Missing, PortOnlyDoc}
         ELSE {Missing}

\* Outcomes of fernet.Key.Generate: the random bytes, or a failure of the
\* random source.
GenFailure == [ok |-> FALSE, key |-> Rep(0, KeyLen)]
GenOutcomes ==
    { [ok |-> TRUE, key |-> [i \in 1..KeyLen |-> (i * 37 + 214) % 256]],
      GenFailure }

\* ------------------------------------------------------------------ state
VARIABLES
    heap,      \* allocated objects
    results,   \* what each finished call returned, in call order
    pc,        \* position of the LoadConfig call in progress, or "idle"
    path,      \* LoadConfig's argument
    cfgFile,   \* address of cfgFile.Clair (index into heap.cfgs)
    config,    \* named result: 0 (nil) or the address of cfgFile.Clair
    err,       \* named result
    f,         \* file handle: "none", "open", "closed"
    d,         \* bytes read from the file
    ops,       \* external operations the call has performed, in order
    parsed,    \* value of cfgFile.Clair when yaml.Unmarshal returned
    panicked,  \* the call is unwinding after a nil dereference
    written    \* indices of the results the caller has written through

vars == <<heap, results, pc, path, cfgFile, config, err, f, d, ops, parsed,
          panicked, written>>

locals == <<path, cfgFile, config, err, f, d, ops, parsed, panicked>>

NoData == [none |-> TRUE]
NoSnapshot == [none |-> TRUE]

Init ==
    /\ heap = EmptyHeap
    /\ results = <<>>
    /\ pc = "idle"
    /\ path = <<>>
    /\ cfgFile = 0
    /\ config = 0
    /\ err = ErrNil
    /\ f = "none"
    /\ d = NoData
    /\ ops = <<>>
    /\ parsed = NoSnapshot
    /\ panicked = FALSE
    /\ written = {}

ResetLocals ==
    /\ path' = <<>>
    /\ cfgFile' = 0
    /\ config' = 0
    /\ err' = ErrNil
    /\ f' = "none"
    /\ d' = NoData
    /\ ops' = <<>>
    /\ parsed' = NoSnapshot
    /\ panicked' = FALSE

\* The record of a finished call.
Result(op, p, c, e, o, doc, snap, pan, h) ==
    [op |-> op, path |-> p, config |-> c, err |-> e, ops |-> o, doc |-> doc,
     parsed |-> snap, panicked |-> pan,
     value |-> IF c = 0 THEN NilValue ELSE Deep(h, c)]

\* ---------------------------------------------------------------- actions
\* A caller evaluates DefaultConfig() and keeps the value.
CallDefaultConfig ==
    /\ pc = "idle"
    /\ Len(results) < MaxCalls
    /\ LET r == DefaultConfig(heap)
       IN  /\ heap' = [r.heap EXCEPT !.cfgs = Append(@, r.cfg)]
           /\ results' = Append(results,
                  Result("DefaultConfig", <<>>, Len(heap.cfgs) + 1, ErrNil,
                         <<>>, NoData, NoSnapshot, FALSE, heap'))
    /\ UNCHANGED written
    /\ UNCHANGED <<pc, locals>>

\* Variant: the empty path is not special-cased and goes on to os.Open.
LoadConfigEntryNoShortcut(p) ==
    /\ pc = "idle"
    /\ Len(results) < MaxCalls
    /\ LET r == DefaultConfig(heap)
       IN  heap' = [r.heap EXCEPT !.cfgs = Append(@, r.cfg)]
    /\ pc' = "open"
    /\ path' = p
    /\ cfgFile' = Len(heap.cfgs) + 1
    /\ UNCHANGED <<results, config, err, f, d, ops, parsed, panicked, written>>

\* LoadConfig lines 79-84: cfgFile.Clair = DefaultConfig(); the empty path
\* returns &cfgFile.Clair, nil.
LoadConfigEntry(p) ==
    /\ pc = "idle"
    /\ Len(results) < MaxCalls
    /\ LET r == DefaultConfig(heap)
           c == Len(heap.cfgs) + 1
       IN  /\ heap' = [r.heap EXCEPT !.cfgs = Append(@, r.cfg)]
           /\ IF p = <<>>
              THEN /\ results' = Append(results,
                          Result("LoadConfig", p, c, ErrNil, <<>>,
                                 NoData, NoSnapshot, FALSE, heap'))
                   /\ UNCHANGED <<pc, locals>>
              ELSE /\ pc' = "open"
                   /\ path' = p
                   /\ cfgFile' = c
                   /\ UNCHANGED <<results, config, err, f, d, ops, parsed,
                                  panicked>>
    /\ UNCHANGED written

\* Lines 86-90: os.Open(os.ExpandEnv(path)); a failure returns (nil, err)
\* before the deferred Close is registered.
Open(file) ==
    /\ pc = "open"
    /\ file \in FilesAt(ExpandEnv(path))
    /\ LET name == ExpandEnv(path)
           o == ops \o << <<"ExpandEnv", path>>, <<"Open", name>> >>
       IN  IF name = <<>> \/ file = Missing
           THEN /\ results' = Append(results,
                       Result("LoadConfig", path, config, ErrOpen, o,
                              d, parsed, FALSE, heap))
                /\ pc' = "idle"
                /\ ResetLocals
           ELSE /\ f' = "open"
                /\ d' = file
                /\ ops' = o
                /\ pc' = "read"
                /\ UNCHANGED <<results, path, cfgFile, config, err, parsed,
                               panicked>>
    /\ UNCHANGED <<heap, written>>

\* Lines 92-95: ioutil.ReadAll(f).
Read ==
    /\ pc = "read"
    /\ ops' = Append(ops, <<"ReadAll">>)
    /\ IF d = Unreadable
       THEN /\ err' = ErrRead
            /\ pc' = "return"
       ELSE /\ pc' = "unmarshal"
            /\ UNCHANGED err
    /\ UNCHANGED <<heap, results, path, cfgFile, config, f, d, parsed,
                   panicked, written>>

\* Variant: config is assigned before the error of yaml.Unmarshal is tested.
ParseAssignFirst ==
    /\ pc = "unmarshal"
    /\ LET r == Unmarshal(d, cfgFile, heap)
       IN  /\ heap' = r.heap
           /\ err' = r.err
           /\ ops' = Append(ops, <<"Unmarshal">>)
           /\ config' = cfgFile
           /\ IF r.err # ErrNil
              THEN /\ pc' = "return"
                   /\ UNCHANGED parsed
              ELSE /\ parsed' = Deep(r.heap, cfgFile)
                   /\ pc' = "key"
    /\ UNCHANGED <<results, path, cfgFile, f, d, panicked, written>>

\* Variant: a configuration without a database source is rejected.
ParseRequireSource ==
    /\ pc = "unmarshal"
    /\ LET r == Unmarshal(d, cfgFile, heap)
       IN  /\ heap' = r.heap
           /\ ops' = Append(ops, <<"Unmarshal">>)
           /\ IF r.err # ErrNil
              THEN /\ err' = r.err
                   /\ pc' = "return"
                   /\ UNCHANGED <<config, parsed>>
              ELSE IF r.heap.cfgs[cfgFile].Database.Options = NoOptions
              THEN /\ err' = ErrDatasourceNotLoaded
                   /\ pc' = "return"
                   /\ UNCHANGED <<config, parsed>>
              ELSE /\ err' = r.err
                   /\ config' = cfgFile
                   /\ parsed' = Deep(r.heap, cfgFile)
                   /\ pc' = "key"
    /\ UNCHANGED <<results, path, cfgFile, f, d, panicked, written>>

\* Lines 97-101: yaml.Unmarshal(d, &cfgFile); config = &cfgFile.Clair.
Parse ==
    /\ pc = "unmarshal"
    /\ LET r == Unmarshal(d, cfgFile, heap)
       IN  /\ heap' = r.heap
           /\ err' = r.err
           /\ ops' = Append(ops, <<"Unmarshal">>)
           /\ IF r.err # ErrNil
              THEN /\ pc' = "return"
                   /\ UNCHANGED <<config, parsed>>
              ELSE /\ config' = cfgFile
                   /\ parsed' = Deep(r.heap, cfgFile)
                   /\ pc' = "key"
    /\ UNCHANGED <<results, path, cfgFile, f, d, panicked, written>>

\* Variant: a valid supplied key is stored back re-encoded.
PaginationKeyReencode(gen) ==
    /\ pc = "key"
    /\ pc' = "return"
    /\ LET api == heap.cfgs[config].API
       IN  IF api = 0
           THEN /\ panicked' = TRUE
                /\ UNCHANGED <<heap, err, ops>>
           ELSE IF heap.apis[api].PaginationKey = <<>>
           THEN /\ ops' = Append(ops, <<"Generate">>)
                /\ UNCHANGED panicked
                /\ IF ~gen.ok
                   THEN /\ err' = ErrKeyGen
                        /\ UNCHANGED heap
                   ELSE /\ heap' = [heap EXCEPT
                               !.apis[api].PaginationKey = Encode(gen.key)]
                        /\ UNCHANGED err
           ELSE LET k == DecodeKey(heap.apis[api].PaginationKey)
                IN  /\ ops' = Append(ops, <<"DecodeKey">>)
                    /\ err' = IF k.ok THEN ErrNil ELSE ErrInvalidKey
                    /\ heap' = IF k.ok
                               THEN [heap EXCEPT !.apis[api].PaginationKey =
                                        Encode(k.bytes)]
                               ELSE heap
                    /\ UNCHANGED panicked
    /\ UNCHANGED <<results, path, cfgFile, config, f, d, parsed, written>>

\* Lines 103-116: generate a pagination key when none is provided, else
\* validate the provided one.  config.API is dereferenced unchecked.
PaginationKey(gen) ==
    /\ pc = "key"
    /\ pc' = "return"
    /\ LET api == heap.cfgs[config].API
       IN  IF api = 0
           THEN /\ panicked' = TRUE
                /\ UNCHANGED <<heap, err, ops>>
           ELSE IF heap.apis[api].PaginationKey = <<>>
           THEN /\ ops' = Append(ops, <<"Generate">>)
                /\ UNCHANGED panicked
                /\ IF ~gen.ok
                   THEN /\ err' = ErrKeyGen
                        /\ UNCHANGED heap
                   ELSE /\ heap' = [heap EXCEPT
                               !.apis[api].PaginationKey = Encode(gen.key)]
                        /\ UNCHANGED err
           ELSE /\ ops' = Append(ops, <<"DecodeKey">>)
                /\ err' = IF DecodeKey(heap.apis[api].PaginationKey).ok
                          THEN ErrNil ELSE ErrInvalidKey
                /\ UNCHANGED <<heap, panicked>>
    /\ UNCHANGED <<results, path, cfgFile, config, f, d, parsed, written>>

\* Variant: the file is closed at the end of the function body only, so the
\* early returns leave it open.
ReturnCloseOnSuccess ==
    /\ pc = "return"
    /\ results' = Append(results,
           Result("LoadConfig", path,
                  IF panicked THEN 0 ELSE config,
                  IF panicked THEN "panic: nil pointer dereference" ELSE err,
                  IF err = ErrNil /\ ~panicked
                  THEN Append(ops, <<"Close">>) ELSE ops,
                  d, parsed, panicked, heap))
    /\ pc' = "idle"
    /\ ResetLocals
    /\ UNCHANGED <<heap, written>>

\* Line 90 and the returns of lines 94, 99, 107, 114, 118: the deferred
\* f.Close() runs, then the named results go to the caller (or the panic
\* propagates).
Return ==
    /\ pc = "return"
    /\ results' = Append(results,
           Result("LoadConfig", path,
                  IF panicked THEN 0 ELSE config,
                  IF panicked THEN "panic: nil pointer dereference" ELSE err,
                  Append(ops, <<"Close">>), d, parsed, panicked, heap))
    /\ pc' = "idle"
    /\ ResetLocals
    /\ UNCHANGED <<heap, written>>

\* A caller stores into the API of a config it was given.
CallerWrite(i) ==
    /\ pc = "idle"
    /\ i \in 1..Len(results)
    /\ results[i].config # 0
    /\ LET api == heap.cfgs[results[i].config].API
       IN  /\ api # 0
           /\ heap.apis[api].CAFile = ""
           /\ heap' = [heap EXCEPT !.apis[api].CAFile = "/tls/ca.pem"]
    /\ written' = written \cup {i}
    /\ UNCHANGED <<results, pc, locals>>

Next ==
    \/ CallDefaultConfig
    \/ \E p \in Paths : LoadConfigEntry(p)
    \/ \E file \in FileStates : Open(file)
    \/ Read
    \/ Parse
    \/ \E gen \in GenOutcomes : PaginationKey(gen)
    \/ Return
    \/ \E i \in 1..MaxCalls : CallerWrite(i)

Spec == Init /\ [][Next]_vars

\* ------------------------------------------------------------- properties
Calls == 1..Len(results)
Loads == {i \in Calls : results[i].op = "LoadConfig"}
LoadOK(r) == r.op = "LoadConfig" /\ r.err = ErrNil /\ ~r.panicked
OpNames(o) == [i \in 1..Len(o) |-> o[i][1]]
Count(o, name) == Cardinality({i \in 1..Len(o) : o[i][1] = name})
HasParsedKey(r) == r.parsed # NoSnapshot /\ r.parsed.API # NilValue

\* C1 (as stated): whenever LoadConfig returns no error, for every path, the
\* returned API.PaginationKey is URL-safe base64 of exactly 32 bytes.
C1_AnySuccessHasURLSafeKey ==
    \A i \in Loads :
        LoadOK(results[i]) =>
            IsURLSafeKey(results[i].value.API.PaginationKey)

\* C1 (amended): whenever LoadConfig returns no error for a non-empty path,
\* the returned API.PaginationKey is non-empty and fernet.DecodeKey decodes
\* it to exactly 32 bytes; a generated key is URL-safe base64 of 32 bytes, a
\* supplied key is the one parsed.  For the empty path the key is empty.
C1_LoadedKeyDecodes ==
    \A i \in Loads :
        LET r == results[i]
            key == r.value.API.PaginationKey
        IN  LoadOK(r) =>
                IF r.path = <<>> THEN key = <<>>
                ELSE /\ key # <<>>
                     /\ LET k == DecodeKey(key)
                        IN  k.ok /\ Len(k.bytes) = KeyLen
                     /\ IF r.parsed.API.PaginationKey = <<>>
                        THEN IsURLSafeKey(key)
                        ELSE key = r.parsed.API.PaginationKey

C1_Witness ==
    \E i, j \in Loads :
        /\ LoadOK(results[i]) /\ LoadOK(results[j])
        /\ results[i].path # <<>> /\ results[j].path # <<>>
        /\ results[i].parsed.API.PaginationKey = <<>>
        /\ IsURLSafeKey(results[i].value.API.PaginationKey)
        /\ results[j].parsed.API.PaginationKey = KeyHex

\* C2: for the empty path LoadConfig returns a config equal field for field
\* to DefaultConfig() with a nil error, having expanded, opened and read
\* nothing and run no pagination-key step.
C2_EmptyPathIsDefault ==
    \A i \in Loads :
        LET r == results[i]
        IN  r.path = <<>> =>
                /\ r.err = ErrNil
                /\ ~r.panicked
                /\ r.config # 0
                /\ r.value = DefaultValue
                /\ r.ops = <<>>
                /\ r.parsed = NoSnapshot

C2_Witness ==
    \E i \in Loads : results[i].path = <<>> /\ results[i].value = DefaultValue

\* C3 (as stated): once a well-formed document is parsed, Updater, Notifier
\* and API of the config are all non-nil.
C3_SubConfigsSetAfterParse ==
    pc = "key" =>
        /\ heap.cfgs[config].Updater # 0
        /\ heap.cfgs[config].Notifier # 0
        /\ heap.cfgs[config].API # 0

\* C4 (as stated): a document overriding only api.port loads successfully
\* with that port and every other field, PaginationKey included, equal to
\* DefaultConfig().
C4_PortOnlyKeepsEveryOtherDefault ==
    \A i \in Loads :
        results[i].doc = PortOnlyDoc =>
            /\ LoadOK(results[i])
            /\ results[i].value =
                   [DefaultValue EXCEPT !.API.Port = PortOnlyDoc.clair.api.port]

\* The fields of a block after parsing: present fields from the document,
\* absent ones from DefaultConfig(); an absent block is the default block and
\* a null block is nil.
BlockOverlaid(blocks, key, got, default) ==
    IF key \notin DOMAIN blocks THEN got = default
    ELSE IF IsNull(blocks[key]) THEN got = NilValue \/ got = ZeroDatabase
    ELSE /\ DOMAIN got = DOMAIN default
         /\ \A fld \in DOMAIN default :
               got[fld] = IF YamlKey[fld] \in DOMAIN blocks[key]
                          THEN blocks[key][YamlKey[fld]]
                          ELSE default[fld]

\* C4 (amended): a document overriding only api.port loads successfully
\* unless key generation fails, and then has that port, a generated
\* PaginationKey, and every other field equal to DefaultConfig(); in every
\* parse result a field absent from the document keeps its default and a
\* present field replaces it.
C4_PortOnlyKeepsDefaultsButKey ==
    \A i \in Loads :
        LET r == results[i]
        IN  /\ r.doc = PortOnlyDoc =>
                /\ r.err \in {ErrNil, ErrKeyGen}
                /\ r.parsed =
                     [DefaultValue EXCEPT !.API.Port = PortOnlyDoc.clair.api.port]
                /\ r.err = ErrNil =>
                     /\ IsURLSafeKey(r.value.API.PaginationKey)
                     /\ r.value = [r.parsed EXCEPT !.API.PaginationKey =
                                      r.value.API.PaginationKey]
            /\ (r.parsed # NoSnapshot /\ "clair" \in DOMAIN r.doc
                    /\ ~IsNull(r.doc.clair)) =>
                /\ BlockOverlaid(r.doc.clair, "database", r.parsed.Database,
                                 DefaultValue.Database)
                /\ BlockOverlaid(r.doc.clair, "updater", r.parsed.Updater,
                                 DefaultValue.Updater)
                /\ BlockOverlaid(r.doc.clair, "notifier", r.parsed.Notifier,
                                 DefaultValue.Notifier)
                /\ BlockOverlaid(r.doc.clair, "api", r.parsed.API,
                                 DefaultValue.API)

C4_Witness ==
    \E i \in Loads :
        /\ results[i].doc = PortOnlyDoc
        /\ LoadOK(results[i])
        /\ results[i].value.API.Port = 8080
        /\ results[i].value.API.HealthPort = 6061
        /\ results[i].value.API.PaginationKey # <<>>

\* C5 (as stated): a supplied non-empty api.paginationkey is accepted if and
\* only if it is URL-safe base64 of exactly 32 bytes; otherwise the error
\* message is "invalid pagination key; must be 32-byte URL-safe base64" and
\* no key is generated.
C5_SuppliedKeyAcceptedIffURLSafe ==
    \A i \in Loads :
        LET r == results[i]
        IN  (HasParsedKey(r) /\ r.parsed.API.PaginationKey # <<>>) =>
                /\ LoadOK(r) <=> IsURLSafeKey(r.parsed.API.PaginationKey)
                /\ ~LoadOK(r) => r.err =
                     "invalid pagination key; must be 32-byte URL-safe base64"
                /\ Count(r.ops, "Generate") = 0

\* C6 (as stated): whenever LoadConfig returns a non-nil error the returned
\* config is nil.
C6_ErrorMeansNilConfig ==
    \A i \in Loads :
        (results[i].err # ErrNil /\ ~results[i].panicked) =>
            results[i].config = 0

\* C6 (amended): a failure ends the call at the failing step, with a non-nil
\* error, no later step and no step repeated; the returned config is nil
\* when opening, reading or parsing failed, and is the config as parsed when
\* key validation or key generation failed.
C6_FailureIsTerminal ==
    \A i \in Loads :
        LET r == results[i]
            names == OpNames(r.ops)
        IN  ~r.panicked =>
            /\ r.err = ErrOpen =>
                 names = <<"ExpandEnv", "Open">> /\ r.config = 0
            /\ r.err = ErrRead =>
                 /\ names = <<"ExpandEnv", "Open", "ReadAll", "Close">>
                 /\ r.config = 0
            /\ r.err = ErrYAML =>
                 /\ names = <<"ExpandEnv", "Open", "ReadAll", "Unmarshal",
                              "Close">>
                 /\ r.config = 0
            /\ r.err = ErrInvalidKey =>
                 /\ names = <<"ExpandEnv", "Open", "ReadAll", "Unmarshal",
                              "DecodeKey", "Close">>
                 /\ r.config # 0
                 /\ r.value = r.parsed
            /\ r.err = ErrKeyGen =>
                 /\ names = <<"ExpandEnv", "Open", "ReadAll", "Unmarshal",
                              "Generate", "Close">>
                 /\ r.config # 0
                 /\ r.value = r.parsed
            /\ r.config = 0 => r.err # ErrNil

C6_Witness ==
    /\ \E i \in Loads : results[i].err = ErrInvalidKey /\ results[i].config # 0
    /\ \E i \in Loads : results[i].err = ErrYAML /\ results[i].config = 0

\* C7: a call that opened the file closes it exactly once, as its last
\* operation, on every exit path; a call that opened no file (empty path,
\* failed open) holds and closes none.
C7_HandleReleasedOnce ==
    /\ pc \in {"read", "unmarshal", "key", "return"} <=> f = "open"
    /\ pc \in {"idle", "open"} => f = "none"
    /\ Count(ops, "Close") = 0
    /\ \A i \in Loads :
        LET r == results[i]
        IN  IF r.path = <<>> \/ r.err = ErrOpen
            THEN Count(r.ops, "Close") = 0 /\ Count(r.ops, "ReadAll") = 0
            ELSE /\ Count(r.ops, "Close") = 1
                 /\ r.ops[Len(r.ops)] = <<"Close">>
                 /\ Count(r.ops, "Open") = 1

C7_Witness ==
    /\ \E i \in Loads : results[i].err = ErrInvalidKey
                        /\ Count(results[i].ops, "Close") = 1
    /\ \E i \in Loads : results[i].panicked
                        /\ Count(results[i].ops, "Close") = 1

KeyWritten(r) == r.value.API.PaginationKey # r.parsed.API.PaginationKey

\* C9 (as stated): the key step runs only after a successful parse, changes
\* nothing but API.PaginationKey, and writes it if and only if the parsed key
\* is empty; a valid supplied key is returned unchanged.
C9_KeyWrittenIffParsedEmpty ==
    \A i \in Loads :
        LET r == results[i]
        IN  /\ (Count(r.ops, "Generate") + Count(r.ops, "DecodeKey") > 0) =>
                r.parsed # NoSnapshot
            /\ (HasParsedKey(r) /\ ~r.panicked) =>
                /\ r.value = [r.parsed EXCEPT !.API.PaginationKey =
                                 r.value.API.PaginationKey]
                /\ KeyWritten(r) <=> r.parsed.API.PaginationKey = <<>>

\* C9 (amended): as C9, except that the key is written if and only if the
\* parsed key is empty and key generation succeeds.
C9_KeyWrittenIffGenerated ==
    \A i \in Loads :
        LET r == results[i]
        IN  /\ (Count(r.ops, "Generate") + Count(r.ops, "DecodeKey") > 0) =>
                /\ r.parsed # NoSnapshot
                /\ Count(r.ops, "Unmarshal") = 1
            /\ r.parsed = NoSnapshot =>
                Count(r.ops, "Generate") + Count(r.ops, "DecodeKey") = 0
            /\ (HasParsedKey(r) /\ ~r.panicked) =>
                /\ r.value = [r.parsed EXCEPT !.API.PaginationKey =
                                 r.value.API.PaginationKey]
                /\ KeyWritten(r) <=>
                     (r.parsed.API.PaginationKey = <<>> /\ r.err # ErrKeyGen)
                /\ (r.parsed.API.PaginationKey # <<>> /\ r.err = ErrNil) =>
                     r.value = r.parsed

C9_Witness ==
    /\ \E i \in Loads : LoadOK(results[i]) /\ HasParsedKey(results[i])
                        /\ results[i].parsed.API.PaginationKey = KeyHex
                        /\ results[i].value = results[i].parsed
    /\ \E i \in Loads : LoadOK(results[i]) /\ HasParsedKey(results[i])
                        /\ KeyWritten(results[i])

\* C10: the configs returned by different calls share no sub-structure: a
\* returned config keeps the value it was returned with unless the caller
\* wrote through that very config, and DefaultConfig() always returns the
\* baseline with an empty PaginationKey.
C10_ResultsAreIsolated ==
    /\ \A i \in Calls :
        (results[i].config # 0 /\ i \notin written) =>
            Deep(heap, results[i].config) = results[i].value
    /\ \A i, j \in Calls :
        (i # j /\ results[i].config # 0 /\ results[j].config # 0) =>
            LET a == heap.cfgs[results[i].config]
                b == heap.cfgs[results[j].config]
            IN  /\ results[i].config # results[j].config
                /\ a.API # 0 => a.API # b.API
                /\ a.Updater # 0 => a.Updater # b.Updater
                /\ a.Notifier # 0 => a.Notifier # b.Notifier
    /\ \A i \in Calls :
        results[i].op = "DefaultConfig" =>
            /\ results[i].value = DefaultValue
            /\ results[i].value.API.PaginationKey = <<>>

C10_Witness ==
    \E i, j \in Calls :
        /\ i < j
        /\ results[i].op = "DefaultConfig"
        /\ LoadOK(results[j]) /\ HasParsedKey(results[j])
        /\ KeyWritten(results[j])
        /\ j \in written
        /\ i \notin written
====
